---- MODULE Spec2Model ----
(***************************************************************************)
(* A model of guac's BSP reader (src/src/bsp_reader.rs): the byte buffer,  *)
(* the marker, the primitive reads, read_header, read_entities and the 14  *)
(* fixed-record lump readers built on read_list.                           *)
(*                                                                         *)
(* usize values are held by their two's-complement signed representative:  *)
(* an integer m >= 0 is the usize m, an integer m < 0 is the usize         *)
(* 2^N + m, N the width of usize (what `x as usize` gives for a negative   *)
(* i32 x).  Unsigned order and wrapping addition are the operators         *)
(* usize_lt and usize_add.                                                 *)
(***************************************************************************)
EXTENDS Integers, Sequences, FiniteSets, TLC

(***************************************************************************)
(* Bounds of the model.                                                    *)
(***************************************************************************)
\* the largest number of whole records a direntry of the input files holds
MaxRecords == 2
\* the jump targets a caller uses are 0 .. MaxJump
MaxJump == 1
\* the bytes read_to_end delivers before it fails, when it fails
ReadCut == 100

NoPanic == "none"
NoDirentry == [offset |-> 0, length |-> 0]

LumpOrder ==
    << "entities", "textures", "planes", "nodes", "leafs", "leaffaces",
       "leafbrushes", "models", "brushes", "brushsides", "vertexes",
       "meshverts", "effects", "faces", "lightmaps", "lightvols", "visdata" >>

FixedLumps ==
    { "textures", "planes", "nodes", "leafs", "leaffaces", "leafbrushes",
      "models", "brushes", "brushsides", "vertexes", "meshverts", "effects",
      "faces" }

VARIABLES
    phase,          \* "start" | "ready" | "panicked"
    path,           \* the path given to new, FileBytes(path) the file there
    io,             \* what the file system does: [open, read |-> "ok" | "err",
                    \*   got |-> the bytes read_to_end delivers before it returns]
    overflowChecks, \* the build panics on usize overflow (debug), or wraps (release)
    data,           \* BSPReader.data
    marker,         \* BSPReader.marker
    dirs,           \* the Direntries value the caller passes to the lump readers
    last            \* the last call: what it was given and what came of it

vars == << phase, path, io, overflowChecks, data, marker, dirs, last >>

(***************************************************************************)
(* usize arithmetic on signed representatives.                             *)
(***************************************************************************)
usize_lt(a, b) == IF (a < 0) = (b < 0) THEN a < b ELSE b < 0

\* a + b in usize: the wrapped sum and whether the true sum reached 2^N
usize_add(a, b) ==
    [ sum |-> a + b,
      overflow |-> \/ (a < 0 /\ b < 0)
                   \/ (a < 0 /\ b >= 0 /\ a + b >= 0)
                   \/ (a >= 0 /\ b < 0 /\ a + b >= 0) ]

\* mutant: the quotient rounded away from zero
i32_div_rounding_up(a, b) ==
    IF a >= 0 THEN (a + b - 1) \div b
    ELSE a \div b

\* i32 / i32 of Rust: the quotient truncated toward zero (b > 0 here)
i32_div(a, b) ==
    IF a >= 0 THEN a \div b
    ELSE (a \div b) + (IF a % b = 0 THEN 0 ELSE 1)

(***************************************************************************)
(* byteorder: little-endian i32 and f32 of four bytes.                     *)
(***************************************************************************)
read_i32_le(b0, b1, b2, b3) ==
    (IF b3 >= 128 THEN b3 - 256 ELSE b3) * 16777216 + b2 * 65536 + b1 * 256 + b0

\* an f32 by its IEEE-754 fields
read_f32_le(b0, b1, b2, b3) ==
    [ sign |-> b3 \div 128,
      exponent |-> (b3 % 128) * 2 + (b2 \div 128),
      mantissa |-> (b2 % 128) * 65536 + b1 * 256 + b0 ]

(***************************************************************************)
(* str::from_utf8: whether a byte sequence is well-formed UTF-8.           *)
(***************************************************************************)
IsCont(c) == c >= 128 /\ c <= 191

\* the continuation bytes a lead byte announces; -1 for a byte that starts nothing
Utf8Width(c) ==
    IF c < 128 THEN 0
    ELSE IF c >= 194 /\ c <= 223 THEN 1
    ELSE IF c >= 224 /\ c <= 239 THEN 2
    ELSE IF c >= 240 /\ c <= 244 THEN 3
    ELSE -1

\* every lead byte is followed by its continuation bytes (the first within
\* the range that excludes overlong forms, surrogates and values above
\* U+10FFFF), and every continuation byte belongs to a lead byte before it
from_utf8_ok(b) ==
    \A i \in 1 .. Len(b) :
        LET c == b[i]
            w == Utf8Width(c)
        IN  IF IsCont(c)
              THEN \E k \in 1 .. 3 :
                      /\ i - k >= 1
                      /\ Utf8Width(b[i - k]) >= k
                      /\ \A j \in 1 .. k - 1 : IsCont(b[i - j])
              ELSE /\ w >= 0
                   /\ i + w <= Len(b)
                   /\ \A j \in 1 .. w : IsCont(b[i + j])
                   /\ (c = 224 => b[i + 1] >= 160)
                   /\ (c = 237 => b[i + 1] <= 159)
                   /\ (c = 240 => b[i + 1] >= 144)
                   /\ (c = 244 => b[i + 1] <= 143)

(***************************************************************************)
(* The reader while a call runs: the marker, the buffer indices read so    *)
(* far in the call (as ranges << first, last + 1 >>), and the panic that   *)
(* ended it (NoPanic while it runs).                                       *)
(* Every read returns [r |-> the reader after it, val |-> the value]; a    *)
(* read on a reader that panicked does nothing.                            *)
(***************************************************************************)
Reader(m) == [marker |-> m, reads |-> {}, panic |-> NoPanic]

\* the ranges read, with the indices lo .. hi - 1 added
AddRead(reads, lo, hi) ==
    IF lo = hi THEN reads
    ELSE IF \E g \in reads : g[2] = lo
      THEN LET g == CHOOSE g \in reads : g[2] = lo
           IN  (reads \ {g}) \cup {<< g[1], hi >>}
      ELSE reads \cup {<< lo, hi >>}

Panicked(r, kind) == [r |-> [r EXCEPT !.panic = kind], val |-> 0]

\* the values read so far, none yet
Start(r) == [r |-> r, val |-> << >>]

\* y was read after x: the reader after both, y's value added to x's
Then(x, y) == [r |-> y.r, val |-> Append(x.val, y.val)]

\* mutant: the marker stays where it is
jump_skipped(r, offset) == r

jump(r, offset) == [r EXCEPT !.marker = offset]

\* mutant: a read past the end of the buffer yields 0 instead of a panic
read_ubyte_lenient(r) ==
    IF r.panic # NoPanic THEN [r |-> r, val |-> 0]
    ELSE [ r |-> [r EXCEPT !.marker = r.marker + 1,
                           !.reads = AddRead(r.reads, r.marker, r.marker + 1)],
           val |-> IF usize_lt(r.marker, Len(data)) THEN data[r.marker + 1] ELSE 0 ]

read_ubyte(r) ==
    IF r.panic # NoPanic THEN [r |-> r, val |-> 0]
    ELSE IF ~usize_lt(r.marker, Len(data)) THEN Panicked(r, "OutOfRange")
    ELSE [ r |-> [r EXCEPT !.marker = r.marker + 1,
                           !.reads = AddRead(r.reads, r.marker, r.marker + 1)],
           val |-> data[r.marker + 1] ]

then_ubyte(x) == Then(x, read_ubyte(x.r))

\* [self.read_ubyte(), self.read_ubyte(), self.read_ubyte(), self.read_ubyte()]
read_4_ubytes(r) == then_ubyte(then_ubyte(then_ubyte(then_ubyte(Start(r)))))

int_value(x) ==
    [ r |-> x.r,
      val |-> IF x.r.panic = NoPanic
                THEN read_i32_le(x.val[1], x.val[2], x.val[3], x.val[4]) ELSE 0 ]

read_int(r) == int_value(read_4_ubytes(r))

float_value(x) ==
    [ r |-> x.r,
      val |-> IF x.r.panic = NoPanic
                THEN read_f32_le(x.val[1], x.val[2], x.val[3], x.val[4]) ELSE 0 ]

read_float(r) == float_value(read_4_ubytes(r))

read_string(r, length) ==
    IF r.panic # NoPanic THEN [r |-> r, val |-> 0]
    ELSE LET end == usize_add(r.marker, length)
         IN  IF end.overflow /\ overflowChecks THEN Panicked(r, "Overflow")
             ELSE IF usize_lt(end.sum, r.marker) THEN Panicked(r, "SliceOrder")
             ELSE IF usize_lt(Len(data), end.sum) THEN Panicked(r, "OutOfRange")
             ELSE LET bytes == SubSeq(data, r.marker + 1, end.sum)
                      moved == [r EXCEPT !.marker = end.sum,
                                         !.reads = AddRead(r.reads, r.marker, end.sum)]
                  IN  IF from_utf8_ok(bytes) THEN [r |-> moved, val |-> bytes]
                      ELSE Panicked(moved, "Utf8")

then_int(x) == Then(x, read_int(x.r))

then_string(x, length) == Then(x, read_string(x.r, length))

(***************************************************************************)
(* read_direntry, read_direntries, read_header.                            *)
(***************************************************************************)
direntry_swapped_value(x) ==
    [r |-> x.r, val |-> [offset |-> x.val[2], length |-> x.val[1]]]

\* mutant: length read before offset
read_direntry_swapped(r) == direntry_swapped_value(then_int(then_int(Start(r))))

direntry_value(x) ==
    [r |-> x.r, val |-> [offset |-> x.val[1], length |-> x.val[2]]]

read_direntry(r) == direntry_value(then_int(then_int(Start(r))))

then_direntry(x) == Then(x, read_direntry(x.r))

\* k calls of read_direntry one after the other, their values in call order
RECURSIVE read_direntry_seq(_, _)
read_direntry_seq(x, k) ==
    IF k = 0 \/ x.r.panic # NoPanic THEN x
    ELSE read_direntry_seq(then_direntry(x), k - 1)

direntries_value(x) ==
    IF x.r.panic # NoPanic THEN [r |-> x.r, val |-> 0]
    ELSE [ r |-> x.r,
           val |-> [ entities |-> x.val[1], textures |-> x.val[2],
                     planes |-> x.val[3], nodes |-> x.val[4], leafs |-> x.val[5],
                     leaffaces |-> x.val[6], leafbrushes |-> x.val[7],
                     models |-> x.val[8], brushes |-> x.val[9],
                     brushsides |-> x.val[10], vertexes |-> x.val[11],
                     meshverts |-> x.val[12], effects |-> x.val[13],
                     faces |-> x.val[14], lightmaps |-> x.val[15],
                     lightvols |-> x.val[16], visdata |-> x.val[17] ] ]

read_direntries(r) == direntries_value(read_direntry_seq(Start(r), 17))

then_direntries(x) == Then(x, read_direntries(x.r))

header_value(x) ==
    IF x.r.panic # NoPanic THEN [r |-> x.r, val |-> 0]
    ELSE [ r |-> x.r,
           val |-> [magic |-> x.val[1], version |-> x.val[2],
                    direntries |-> x.val[3]] ]

header_validated(x) ==
    IF x.r.panic = NoPanic /\ (x.val.magic # << 73, 66, 83, 80 >> \/ x.val.version # 46)
      THEN Panicked(x.r, "BadHeader")
      ELSE x

\* mutant: a header whose magic is not "IBSP" or whose version is not 46 is refused
read_header_validating(r) ==
    header_validated(
        header_value(then_direntries(then_int(then_string(Start(r), 4)))))

\* mutant: the header is read from the start of the buffer
read_header_rewinding(r) ==
    header_value(then_direntries(then_int(then_string(Start(jump(r, 0)), 4))))

read_header(r) ==
    header_value(then_direntries(then_int(then_string(Start(r), 4))))

(***************************************************************************)
(* The record decoders: the closures handed to read_list.  A layout is the *)
(* closure's reads in evaluation order; Record names the fields.           *)
(***************************************************************************)
read_field(r, kind) ==
    CASE kind = "int" -> read_int(r)
      [] kind = "float" -> read_float(r)
      [] kind = "ubyte" -> read_ubyte(r)
      [] kind = "string64" -> read_string(r, 64)

then_field(x, kind) == Then(x, read_field(x.r, kind))

RECURSIVE read_fields(_, _)
read_fields(x, layout) ==
    IF layout = << >> \/ x.r.panic # NoPanic THEN x
    ELSE read_fields(then_field(x, Head(layout)), Tail(layout))

Ints(n) == [i \in 1 .. n |-> "int"]
Floats(n) == [i \in 1 .. n |-> "float"]
Ubytes(n) == [i \in 1 .. n |-> "ubyte"]

Layout(lump) ==
    CASE lump = "textures" -> << "string64", "int", "int" >>
      [] lump = "planes" -> Floats(4)
      [] lump = "nodes" -> Ints(9)
      [] lump = "leafs" -> Ints(12)
      [] lump = "leaffaces" -> Ints(1)
      [] lump = "leafbrushes" -> Ints(1)
      [] lump = "models" -> Floats(6) \o Ints(4)
      [] lump = "brushes" -> Ints(3)
      [] lump = "brushsides" -> Ints(2)
      [] lump = "vertexes" -> Floats(10) \o Ubytes(4)
      [] lump = "meshverts" -> Ints(1)
      [] lump = "effects" -> << "string64", "int", "int" >>
      [] lump = "faces" -> Ints(12) \o Floats(12) \o Ints(2)

Record(lump, v) ==
    CASE lump = "textures" -> [name |-> v[1], flags |-> v[2], contents |-> v[3]]
      [] lump = "planes" -> [normal |-> << v[1], v[2], v[3] >>, dist |-> v[4]]
      [] lump = "nodes" ->
            [ plane |-> v[1], children |-> << v[2], v[3] >>,
              mins |-> << v[4], v[5], v[6] >>, maxs |-> << v[7], v[8], v[9] >> ]
      [] lump = "leafs" ->
            [ cluster |-> v[1], area |-> v[2],
              mins |-> << v[3], v[4], v[5] >>, maxs |-> << v[6], v[7], v[8] >>,
              leafface |-> v[9], n_leaffaces |-> v[10],
              leafbrush |-> v[11], n_leafbrushes |-> v[12] ]
      [] lump \in {"leaffaces", "leafbrushes", "meshverts"} -> v[1]
      [] lump = "models" ->
            [ mins |-> << v[1], v[2], v[3] >>, maxs |-> << v[4], v[5], v[6] >>,
              face |-> v[7], n_faces |-> v[8], brush |-> v[9], n_brushes |-> v[10] ]
      [] lump = "brushes" ->
            [brushside |-> v[1], n_brushsides |-> v[2], texture |-> v[3]]
      [] lump = "brushsides" -> [plane |-> v[1], texture |-> v[2]]
      [] lump = "vertexes" ->
            [ position |-> << v[1], v[2], v[3] >>,
              texcoord |-> << << v[4], v[5] >>, << v[6], v[7] >> >>,
              normal |-> << v[8], v[9], v[10] >>,
              color |-> << v[11], v[12], v[13], v[14] >> ]
      [] lump = "effects" -> [name |-> v[1], brush |-> v[2], unknown |-> v[3]]
      [] lump = "faces" ->
            [ texture |-> v[1], effect |-> v[2], f_type |-> v[3], vertex |-> v[4],
              n_vertexes |-> v[5], meshvert |-> v[6], n_meshverts |-> v[7],
              lm_index |-> v[8], lm_start |-> << v[9], v[10] >>,
              lm_size |-> << v[11], v[12] >>,
              lm_origin |-> << v[13], v[14], v[15] >>,
              lm_vecs |-> << << v[16], v[17], v[18] >>, << v[19], v[20], v[21] >> >>,
              normal |-> << v[22], v[23], v[24] >>,
              size |-> << v[25], v[26] >> ]

record_value(lump, x) ==
    IF x.r.panic # NoPanic THEN [r |-> x.r, val |-> 0]
    ELSE [r |-> x.r, val |-> Record(lump, x.val)]

\* one invocation of the closure of read_<lump>
read_record(r, lump) == record_value(lump, read_fields(Start(r), Layout(lump)))

\* the entry_size each read_<lump> hands to read_list
EntrySize(lump) ==
    CASE lump = "textures" -> 64 + 4 + 4
      [] lump = "planes" -> 3 * 4 + 4
      [] lump = "nodes" -> 4 + 2 * 4 + 3 * 4 + 3 * 4
      [] lump = "leafs" -> 12 * 4
      [] lump = "leaffaces" -> 4
      [] lump = "leafbrushes" -> 4
      [] lump = "models" -> 10 * 4
      [] lump = "brushes" -> 3 * 4
      [] lump = "brushsides" -> 2 * 4
      [] lump = "vertexes" -> 14 * 4
      [] lump = "meshverts" -> 4
      [] lump = "effects" -> 64 + 2 * 4
      [] lump = "faces" -> 26 * 4

(***************************************************************************)
(* read_list and read_entities.  A lump call returns the reader after it,  *)
(* the value, and for each record the marker before and after its decode.  *)
(***************************************************************************)
RECURSIVE read_loop(_, _, _)

\* list.push(read(self)): x is the list so far, y what the closure returned
pushed(x, y) ==
    IF y.r.panic # NoPanic
      THEN [r |-> y.r, val |-> << >>, spans |-> x.spans]
      ELSE [ r |-> y.r, val |-> Append(x.val, y.val),
             spans |-> Append(x.spans, << x.r.marker, y.r.marker >>) ]

\* mutant: the loop runs once more than entries
read_loop_once_more(x, entries, lump) ==
    IF entries < 0 \/ x.r.panic # NoPanic THEN x
    ELSE read_loop(pushed(x, read_record(x.r, lump)), entries - 1, lump)

\* for _ in 0..entries { list.push(read(self)); }
read_loop(x, entries, lump) ==
    IF entries <= 0 \/ x.r.panic # NoPanic THEN x
    ELSE read_loop(pushed(x, read_record(x.r, lump)), entries - 1, lump)

read_list(r, direntry, entry_size, lump) ==
    read_loop([r |-> jump(r, direntry.offset), val |-> << >>, spans |-> << >>],
              i32_div(direntry.length, entry_size), lump)

entities_value(s) ==
    [ r |-> s.r, val |-> IF s.r.panic = NoPanic THEN s.val ELSE << >>,
      spans |-> << >> ]

read_entities(r, direntries) ==
    entities_value(read_string(jump(r, direntries.entities.offset),
                               direntries.entities.length))

\* read_textures .. read_faces: each is read_list on its own direntry
read_lump(r, direntries, lump) ==
    read_list(r, direntries[lump], EntrySize(lump), lump)

(***************************************************************************)
(* The input files.  Each is a header (magic, version, 17 direntries) and  *)
(* a payload; Enc32 is the little-endian two's-complement encoding.        *)
(***************************************************************************)
ByteOf(n, i) == (n \div (256 ^ i)) % 256

Enc32(n) ==
    IF n >= 0 THEN << ByteOf(n, 0), ByteOf(n, 1), ByteOf(n, 2), ByteOf(n, 3) >>
    ELSE LET k == -(n + 1)
         IN  << 255 - ByteOf(k, 0), 255 - ByteOf(k, 1),
                255 - ByteOf(k, 2), 255 - ByteOf(k, 3) >>

HeaderSize == 4 + 4 + 17 * 8

\* the bytes one record of a lump takes in a file: those of its layout
FieldBytes(kind) == IF kind = "string64" THEN 64 ELSE IF kind = "ubyte" THEN 1 ELSE 4

RECURSIVE LayoutBytes(_)
LayoutBytes(layout) ==
    IF layout = << >> THEN 0
    ELSE FieldBytes(Head(layout)) + LayoutBytes(Tail(layout))

RecordBytes(lump) == IF lump \in FixedLumps THEN LayoutBytes(Layout(lump)) ELSE 6

\* file 1: a well-formed file, every lump holding MaxRecords records and one
\* byte more; file 2: negative offsets and lengths, lumps that leave the
\* buffer, text that is not UTF-8; file 3: a file whose lumps end with it
PayloadLen(k) ==
    CASE k = 1 -> MaxRecords * EntrySize("faces") + 2
      [] k = 2 -> EntrySize("faces") + 6
      [] k = 3 -> 6

FileLen(k) == HeaderSize + PayloadLen(k)

FileDirentry(k, i) ==
    LET lump == LumpOrder[i]
        size == RecordBytes(lump)
    IN  CASE k = 1 -> [offset |-> HeaderSize, length |-> MaxRecords * size + 1]
          [] k = 2 ->
               ( CASE i % 4 = 0 -> [offset |-> -4, length |-> size]
                   [] i % 4 = 1 -> [offset |-> HeaderSize, length |-> -1 - i]
                   [] i % 4 = 2 -> [offset |-> HeaderSize + 1, length |-> size]
                   [] i % 4 = 3 -> [offset |-> FileLen(2) - 2, length |-> 2 * size] )
          [] k = 3 -> [offset |-> FileLen(3) - size, length |-> size + 1]

FileDirs(k) ==
    [ entities |-> FileDirentry(k, 1), textures |-> FileDirentry(k, 2),
      planes |-> FileDirentry(k, 3), nodes |-> FileDirentry(k, 4),
      leafs |-> FileDirentry(k, 5), leaffaces |-> FileDirentry(k, 6),
      leafbrushes |-> FileDirentry(k, 7), models |-> FileDirentry(k, 8),
      brushes |-> FileDirentry(k, 9), brushsides |-> FileDirentry(k, 10),
      vertexes |-> FileDirentry(k, 11), meshverts |-> FileDirentry(k, 12),
      effects |-> FileDirentry(k, 13), faces |-> FileDirentry(k, 14),
      lightmaps |-> FileDirentry(k, 15), lightvols |-> FileDirentry(k, 16),
      visdata |-> FileDirentry(k, 17) ]

Magic(k) ==
    CASE k = 1 -> << 73, 66, 83, 80 >>      \* "IBSP"
      [] k = 2 -> << 195, 169, 50, 51 >>    \* a two-byte character, "2", "3"
      [] k = 3 -> << 255, 66, 83, 80 >>     \* not UTF-8

Version(k) == CASE k = 1 -> 46 [] k = 2 -> -2 [] k = 3 -> 46

PayloadByte(k, j) ==
    CASE k = 2 /\ j = 2 -> 255
      [] j % 4 = 0 -> ((j \div 4) % 60) + 1
      [] OTHER -> 0

RECURSIVE DirBytes(_, _)
DirBytes(k, i) ==
    IF i > 17 THEN << >>
    ELSE Enc32(FileDirentry(k, i).offset) \o Enc32(FileDirentry(k, i).length)
         \o DirBytes(k, i + 1)

FileBytes(k) ==
    Magic(k) \o Enc32(Version(k)) \o DirBytes(k, 1)
    \o [j \in 1 .. PayloadLen(k) |-> PayloadByte(k, j - 1)]

Files == 1 .. 3

\* the Direntries a caller passes: those of the file's header, or those of
\* file 3 (Direntries has public fields: any value can be passed)
DirChoices(k) == {FileDirs(k), FileDirs(3)}

IoChoices ==
    { [open |-> "ok", read |-> "ok", got |-> 0],
      [open |-> "err", read |-> "ok", got |-> 0],
      [open |-> "ok", read |-> "err", got |-> ReadCut] }

(***************************************************************************)
(* The state machine.                                                      *)
(***************************************************************************)
NoCall ==
    [ op |-> "none", from |-> 0, d |-> NoDirentry, panic |-> NoPanic,
      val |-> << >>, spans |-> << >>, reads |-> {} ]

Init ==
    /\ phase = "start"
    /\ path \in Files
    /\ dirs \in DirChoices(path)
    /\ io \in IoChoices
    /\ overflowChecks \in BOOLEAN
    /\ data = << >>
    /\ marker = 0
    /\ last = NoCall

\* BSPReader::new: File::open(path).unwrap(); f.read_to_end(&mut buf), its
\* Result dropped; the reader holds whatever reached buf
new ==
    /\ phase = "start"
    /\ IF io.open = "err"
         THEN phase' = "panicked" /\ UNCHANGED data
         ELSE /\ phase' = "ready"
              /\ data' = IF io.read = "ok" THEN FileBytes(path)
                         ELSE SubSeq(FileBytes(path), 1, io.got)
    /\ marker' = 0
    /\ UNCHANGED << path, io, overflowChecks, dirs, last >>

\* what a call leaves behind
Finish(op, d, out) ==
    /\ marker' = out.r.marker
    /\ phase' = IF out.r.panic = NoPanic THEN "ready" ELSE "panicked"
    /\ last' = [ op |-> op, from |-> marker, d |-> d, panic |-> out.r.panic,
                 val |-> out.val, spans |-> out.spans, reads |-> out.r.reads ]
    /\ UNCHANGED << path, io, overflowChecks, data, dirs >>

\* a call that decodes no list of records
NoSpans(x) == [r |-> x.r, val |-> x.val, spans |-> << >>]

Jump ==
    /\ phase = "ready"
    /\ \E offset \in 0 .. MaxJump :
         Finish("jump", NoDirentry, NoSpans(Start(jump(Reader(marker), offset))))

ReadHeader ==
    /\ phase = "ready"
    /\ Finish("read_header", NoDirentry, NoSpans(read_header(Reader(marker))))

ReadEntities ==
    /\ phase = "ready"
    /\ Finish("entities", dirs.entities, read_entities(Reader(marker), dirs))

ReadLump ==
    /\ phase = "ready"
    /\ \E lump \in FixedLumps :
         Finish(lump, dirs[lump], read_lump(Reader(marker), dirs, lump))

Next == new \/ Jump \/ ReadHeader \/ ReadEntities \/ ReadLump

Spec == Init /\ [][Next]_vars

(***************************************************************************)
(* The claims.                                                             *)
(***************************************************************************)
LumpReaders == FixedLumps \cup {"entities"}

Returned == last.panic = NoPanic

\* the call of last.op on a reader fresh from new, same buffer, same direntries
Outcome(x) == [panic |-> x.r.panic, val |-> x.val]

FreshCall(op) ==
    CASE op = "read_header" -> Outcome(read_header(Reader(0)))
      [] op = "entities" -> Outcome(read_entities(Reader(0), dirs))
      [] OTHER -> Outcome(read_lump(Reader(0), dirs, op))

\* the bytes one record decode of each lump consumes, counted from lines 227-357
Consumed(lump) ==
    CASE lump \in {"textures", "effects"} -> 72
      [] lump = "planes" -> 16
      [] lump = "nodes" -> 36
      [] lump = "leafs" -> 48
      [] lump \in {"leaffaces", "leafbrushes", "meshverts"} -> 4
      [] lump = "models" -> 40
      [] lump = "brushes" -> 12
      [] lump = "brushsides" -> 8
      [] lump = "vertexes" -> 44
      [] lump = "faces" -> 104

\* the records read_list decodes for the last call's direntry
Count == IF last.d.length >= 0 THEN last.d.length \div EntrySize(last.op) ELSE 0

\* the signed little-endian 32-bit integer held by the four bytes after position p
Le32At(p) ==
    data[p + 1] + 256 * data[p + 2] + 65536 * data[p + 3]
    + 16777216 * (IF data[p + 4] >= 128 THEN data[p + 4] - 256 ELSE data[p + 4])

\* the last call returned the Header laid out at position m of the buffer
HeaderFieldsAt(m) ==
    /\ Returned
    /\ last.val.magic = SubSeq(data, m + 1, m + 4)
    /\ last.val.version = Le32At(m + 4)
    /\ \A k \in 0 .. 16 :
         last.val.direntries[LumpOrder[k + 1]] =
            [offset |-> Le32At(m + 8 + 8 * k), length |-> Le32At(m + 12 + 8 * k)]
    /\ marker = m + 144

HeaderFromStart ==
    last.op = "read_header" /\ last.from = 0 /\ Len(data) >= 144

\* C1: a lump reader's result (the value, or the failure) is the one the
\* same call gives on a fresh reader over the same buffer with the same
\* direntries, whatever marker the calls before it left.
C1_OrderIndependent ==
    last.op \in LumpReaders =>
        /\ last.panic = FreshCall(last.op).panic
        /\ last.val = FreshCall(last.op).val

C1_Witness ==
    /\ last.op \in FixedLumps
    /\ Returned
    /\ Len(last.val) >= 1
    /\ last.from \notin {0, last.d.offset}

\* C2 as claimed: a fixed-record decode that succeeds returns
\* floor(length / record_size) records.
C2_AsClaimed ==
    (last.op \in FixedLumps /\ Returned) =>
        Len(last.val) = last.d.length \div EntrySize(last.op)

\* C2 as amended: it returns floor(length / record_size) records when
\* length >= 0, the remainder bytes ignored, and no record when length < 0.
C2_RecordCount ==
    (last.op \in FixedLumps /\ Returned) =>
        Len(last.val) = IF last.d.length >= 0
                          THEN last.d.length \div EntrySize(last.op)
                          ELSE 0

C2_Witness ==
    /\ last.op \in FixedLumps
    /\ Returned
    /\ last.d.length % EntrySize(last.op) # 0
    /\ Len(last.val) >= 2

\* C3: a read_vertexes that succeeds on a direntry of length L >= 0 returns
\* floor(L / 44) records.
C3_VertexRecordSize ==
    (last.op = "vertexes" /\ Returned /\ last.d.length >= 0) =>
        Len(last.val) = last.d.length \div 44

\* C4 as claimed (on a completely loaded buffer, the vertex lump left aside):
\* a lump reader called when the buffer is shorter than offset + length ends
\* in a failure and returns no result.
C4_AsClaimed ==
    ( /\ last.op \in LumpReaders \ {"vertexes"}
      /\ io.read = "ok"
      /\ Len(data) < last.d.offset + last.d.length )
    => ~Returned

\* C4 as amended: read_entities fails when the buffer is shorter than
\* offset + length (out of range when both are >= 0); a fixed-record reader
\* fails when it has a record to decode and the buffer is shorter than
\* offset + count * (the bytes one record decode consumes), out of range or
\* on text that is not UTF-8 when offset >= 0.
C4_ShortBuffer ==
    /\ (last.op = "entities" /\ Len(data) < last.d.offset + last.d.length) =>
          /\ ~Returned
          /\ (last.d.offset >= 0 /\ last.d.length >= 0) => last.panic = "OutOfRange"
    /\ ( /\ last.op \in FixedLumps
         /\ Count >= 1
         /\ Len(data) < last.d.offset + Count * Consumed(last.op) ) =>
          /\ ~Returned
          /\ last.d.offset >= 0 => last.panic \in {"OutOfRange", "Utf8"}

C4_Witness ==
    /\ last.op \in FixedLumps
    /\ Count >= 1
    /\ last.d.offset >= 0
    /\ Len(data) < last.d.offset + Count * Consumed(last.op)
    /\ last.panic = "OutOfRange"
    /\ last.reads # {}

\* C5 as claimed: read_header on a fresh reader over a buffer of at least
\* 144 bytes returns the Header laid out at position 0 and leaves the
\* marker at 144.
C5_AsClaimed == HeaderFromStart => HeaderFieldsAt(0)

\* C5 as amended: it does so when the four magic bytes are valid UTF-8.
C5_HeaderLayout ==
    (HeaderFromStart /\ from_utf8_ok(SubSeq(data, 1, 4))) => HeaderFieldsAt(0)

C5_Witness ==
    /\ HeaderFromStart
    /\ Returned
    /\ last.val.direntries.models.offset # last.val.direntries.models.length
    /\ marker = 144

\* C6 as claimed: read_header from marker 0 over a buffer of at least 144
\* bytes returns a Header whatever the magic bytes and the version are.
C6_AsClaimed == HeaderFromStart => Returned

\* C6 as amended: it returns a Header exactly when the four magic bytes are
\* valid UTF-8, whatever they spell and whatever the version is; otherwise
\* it fails on the text decoding.
C6_NoValidation ==
    HeaderFromStart =>
        /\ Returned <=> from_utf8_ok(SubSeq(data, 1, 4))
        /\ ~Returned => last.panic = "Utf8"

C6_Witness ==
    /\ HeaderFromStart
    /\ Returned
    /\ last.val.magic # << 73, 66, 83, 80 >>
    /\ last.val.version # 46

\* C7: when the open or the read-to-end fails, new returns no reader.
C7_IoFailureFatal ==
    (io.open = "err" \/ io.read = "err") => phase \in {"start", "panicked"} /\ last.op = "none"

\* C8: in a successful fixed-record decode the i-th record is decoded from
\* bytes [offset + i*record_size, offset + (i+1)*record_size) and the marker
\* ends at offset + count*record_size, record_size the size handed to read_list.
C8_RecordStride ==
    (last.op \in FixedLumps /\ Returned) =>
        /\ \A i \in 1 .. Len(last.spans) :
              last.spans[i] = << last.d.offset + (i - 1) * EntrySize(last.op),
                                 last.d.offset + i * EntrySize(last.op) >>
        /\ marker = last.d.offset + Len(last.val) * EntrySize(last.op)

\* C9 as claimed: read_header returns what read_header returns on a fresh
\* reader over the same buffer, whatever calls came before.
C9_AsClaimed ==
    last.op = "read_header" =>
        /\ last.panic = FreshCall("read_header").panic
        /\ last.val = FreshCall("read_header").val

\* C9 as amended: read_header does not jump; it returns the Header laid
\* out at the marker it is called with and leaves the marker 144 further,
\* so it returns the fresh reader's Header when called with the marker at 0.
C9_HeaderAtMarker ==
    (last.op = "read_header" /\ Returned) => HeaderFieldsAt(last.from)

C9_Witness ==
    /\ last.op = "read_header"
    /\ Returned
    /\ last.from > 0
    /\ last.val # FreshCall("read_header").val

\* C10: a lump reader that succeeds on a direntry with offset >= 0 and
\* length >= 0 reads only buffer indices in [offset, offset + length) and
\* leaves the marker at most at offset + length; once loaded, the buffer
\* never changes.
C10_LumpIsolation ==
    /\ []( ( /\ last.op \in LumpReaders
             /\ Returned
             /\ last.d.offset >= 0
             /\ last.d.length >= 0 ) =>
           /\ \A g \in last.reads :
                 g[1] >= last.d.offset /\ g[2] <= last.d.offset + last.d.length
           /\ marker <= last.d.offset + last.d.length )
    /\ [][phase # "start" => data' = data]_vars

C10_Witness ==
    /\ last.op \in FixedLumps
    /\ Returned
    /\ last.d.offset > 0
    /\ Len(last.val) >= 1
    /\ last.reads = {<< last.d.offset,
                         last.d.offset + Len(last.val) * Consumed(last.op) >>}
    /\ marker < last.d.offset + last.d.length

====
